---------------------------- MODULE Spec2Model ----------------------------
(***************************************************************************)
(* A model of the crawlers of LINJH00/crawl_info.                          *)
(*                                                                         *)
(* Strings are sequences of tokens: a URL or href is a stem token (scheme, *)
(* host and path) followed by separator tokens ("/", a query "?..", a      *)
(* fragment "#.."), so that split("?", 1)[0], split("#", 1)[0] and         *)
(* rstrip("/") are computed as Python computes them.  A page is the part   *)
(* of a parsed document the code reads: its title, its date, its content   *)
(* elements and its anchors, each in document order.                       *)
(***************************************************************************)
EXTENDS Integers, Sequences, FiniteSets, TLC

VARIABLES
    site,              \* which crawler script runs
    cloudscraper,      \* AI_Weekly: the optional module is installed
    sync_playwright,   \* AI_Weekly: the optional module is installed
    limit,             \* crawl(limit, out)
    pc,                \* position of crawl()
    fpc,               \* position of fetch_html()
    furl,              \* fetch_html's url
    flog,              \* requests issued by the current fetch_html call
    fres,              \* what fetch_html returned or raised
    rpc,               \* position of resolve_redirect()
    rurl,              \* resolve_redirect's url
    rlog,              \* requests issued by the current resolve_redirect call
    rres,              \* what resolve_redirect returned
    headNext,          \* the network: where a HEAD of each URL redirects
    getNext,           \* the network: where a GET of each URL redirects
    round,             \* which application of resolve_redirect is running
    first,             \* the result of the first application
    issue_date,        \* crawl: date of the issue page
    urls,              \* crawl: article_urls[:limit]
    idx,               \* crawl: 1-based position of the for loop in urls
    attempt,           \* crawl: the retry loop's attempt, 0..2
    saved,             \* crawl: the saved counter
    out,               \* the lines written to the output file
    itemlog,           \* what the loop did for the current candidate
    summary,           \* the final summary line, once printed
    cursor,            \* 机器之心: page; 新智源: max_id
    batch,             \* the items of the page being processed
    bidx,              \* 1-based position of the inner for loop in batch
    reqs               \* the page requests issued so far: the cursor sent, the
                       \* number of items got, the number of those that failed

envVars == <<site, cloudscraper, sync_playwright, limit>>
fetchVars == <<fpc, furl, flog, fres>>
resolveVars == <<rpc, rurl, rlog, rres>>
netVars == <<headNext, getNext, round, first>>
crawlVars == <<pc, issue_date, urls, idx, attempt, saved, out, itemlog, summary>>
pageVars == <<cursor, batch, bidx, reqs>>
vars == <<envVars, fetchVars, resolveVars, netVars, crawlVars, pageVars>>

--------------------------------------------------------------------------
(* Bounds of the model. *)

MaxLimit == 3

--------------------------------------------------------------------------
(* Python's string and list operations, on token sequences. *)

QueryToks == {"?q", "?r", "?ref=aiweekly.co", "?next=/issues/1"}
FragToks == {"#f", "#g"}

\* The index of the first token of s in T, 0 when there is none.
FirstIdx(s, T) ==
    IF \E i \in 1..Len(s) : s[i] \in T
    THEN CHOOSE i \in 1..Len(s) : s[i] \in T /\ \A j \in 1..(i - 1) : s[j] \notin T
    ELSE 0

\* s.split(sep, 1)[0], sep the first character of the tokens of T.
SplitFirst(s, T) ==
    IF FirstIdx(s, T) = 0 THEN s ELSE SubSeq(s, 1, FirstIdx(s, T) - 1)

RECURSIVE RStripSlash(_)
\* s.rstrip("/")
RStripSlash(s) ==
    IF Len(s) > 0 /\ s[Len(s)] = "/" THEN RStripSlash(SubSeq(s, 1, Len(s) - 1)) ELSE s

\* A slice that keeps one element too many.
Take_OneMore(s, n) == SubSeq(s, 1, IF n + 1 < Len(s) THEN n + 1 ELSE Len(s))

\* s[:n] for n >= 0
Take(s, n) == SubSeq(s, 1, IF n < Len(s) THEN n ELSE Len(s))

\* s.lower(), on the text tokens of the model.
Lower(t) == IF t = "Verify You Are Human" THEN "verify you are human" ELSE t

\* "verify you are human" in t
HasMarker(t) == t = "verify you are human"

--------------------------------------------------------------------------
(* Pages. *)

P(t) == [tag |-> "p", text |-> t]
Div(t) == [tag |-> "div", text |-> t]
Img(src) == [tag |-> "img", text |-> src]
A(h, c) == [href |-> h, ctx |-> c]

Page(t, d, es, as) == [title |-> t, date |-> d, elems |-> es, anchors |-> as]

NoPage == Page("", "", <<>>, <<>>)

\* "verify you are human" in resp.text.lower(): the marker anywhere in the markup.
RawHasMarker(page) ==
    \/ HasMarker(Lower(page.title))
    \/ \E i \in 1..Len(page.elems) :
          page.elems[i].tag \in {"p", "div"} /\ HasMarker(Lower(page.elems[i].text))


--------------------------------------------------------------------------
(* AI_Weekly: extract_article's body normalization. *)

SvgSrcs == {"icon.svg"}

\* absolutize(src) inside extract_article(url)
absolutize(url, src) ==
    IF src \in {"http://img/a.png"} THEN <<src>>
    ELSE IF src \in {"//img/b.png"} THEN <<"https:", src>>
    ELSE RStripSlash(url) \o <<"/", src>>

RECURSIVE CollectSegments(_, _, _, _)
\* The loop over content_root.descendants: segments after the elements from i on.
CollectSegments(url, elems, i, segments) ==
    IF i > Len(elems) THEN segments
    ELSE LET e == elems[i] IN
         IF e.tag = "p" THEN
             CollectSegments(url, elems, i + 1,
                 IF e.text # "" THEN Append(segments, <<e.text>>) ELSE segments)
         ELSE IF e.tag = "img" THEN
             IF e.text = "" \/ e.text \in SvgSrcs
             THEN CollectSegments(url, elems, i + 1, segments)
             ELSE LET abs_src == absolutize(url, e.text) IN
                  CollectSegments(url, elems, i + 1,
                      IF \E k \in 1..Len(segments) : segments[k] = abs_src
                      THEN segments ELSE Append(segments, abs_src))
         ELSE CollectSegments(url, elems, i + 1, segments)

\* "verify you are human" in content.lower(), content the joined segments.
ContentHasMarker(segments) ==
    \E k \in 1..Len(segments) :
        \E j \in 1..Len(segments[k]) : HasMarker(Lower(segments[k][j]))

\* extract_article after fetch_html: raises, or returns (title, content).
ExtractRaises(url, page) ==
    LET content == CollectSegments(url, page.elems, 1, <<>>) IN
    content = <<>> \/ ContentHasMarker(content)

ExtractContent(url, page) == CollectSegments(url, page.elems, 1, <<>>)

--------------------------------------------------------------------------
(* AI_Weekly: fetch_html, one request per step. *)

Exc == [exc |-> TRUE, status |-> 0, body |-> NoPage]
Resp(st, page) == [exc |-> FALSE, status |-> st, body |-> page]

Statuses == {200, 403}

\* A success condition that looks at the status alone.
RequestsOk_StatusOnly(o) == ~o.exc /\ o.status = 200

\* The success condition of the requests strategy.
RequestsOk(o) == ~o.exc /\ o.status = 200 /\ ~RawHasMarker(o.body)

\* The success condition of the cloudscraper strategy.
CloudscraperOk(o) == ~o.exc /\ o.status = 200

\* The Playwright strategy returns page.content() unless something raised.
PlaywrightOk(o) == ~o.exc

Returned(page) == [raised |-> FALSE, body |-> page]
Raised == [raised |-> TRUE, body |-> NoPage]

BeginFetch(url) ==
    /\ fpc' = "requests"
    /\ furl' = url
    /\ flog' = <<>>
    /\ fres' = Raised

\* fetch_html has returned or raised and its caller has taken the result.
EndFetch ==
    /\ fpc' = "idle"
    /\ furl' = <<>>
    /\ flog' = <<>>
    /\ fres' = Raised

\* A fetch_html that goes from a failed direct GET straight to Playwright.
FetchRequests_SkipsAhead(o) ==
    /\ fpc = "requests"
    /\ flog' = Append(flog, [by |-> "requests", o |-> o])
    /\ IF RequestsOk(o)
       THEN fpc' = "ret" /\ fres' = Returned(o.body)
       ELSE fpc' = "playwright" /\ UNCHANGED fres
    /\ UNCHANGED <<furl, envVars, resolveVars, netVars, crawlVars, pageVars>>

\* lines 54-60
FetchRequests(o) ==
    /\ fpc = "requests"
    /\ flog' = Append(flog, [by |-> "requests", o |-> o])
    /\ IF RequestsOk(o)
       THEN fpc' = "ret" /\ fres' = Returned(o.body)
       ELSE fpc' = "cloudscraper" /\ UNCHANGED fres
    /\ UNCHANGED <<furl, envVars, resolveVars, netVars, crawlVars, pageVars>>

\* lines 63-73, cloudscraper installed
FetchCloudscraper(o) ==
    /\ fpc = "cloudscraper"
    /\ cloudscraper
    /\ flog' = Append(flog, [by |-> "cloudscraper", o |-> o])
    /\ IF CloudscraperOk(o)
       THEN fpc' = "ret" /\ fres' = Returned(o.body)
       ELSE fpc' = "playwright" /\ UNCHANGED fres
    /\ UNCHANGED <<furl, envVars, resolveVars, netVars, crawlVars, pageVars>>

\* A fetch_html that gives up when cloudscraper is missing.
FetchNoCloudscraper_GivesUp ==
    /\ fpc = "cloudscraper"
    /\ ~cloudscraper
    /\ fpc' = "ret"
    /\ fres' = Raised
    /\ UNCHANGED <<furl, flog, envVars, resolveVars, netVars, crawlVars, pageVars>>

\* line 63, cloudscraper is None
FetchNoCloudscraper ==
    /\ fpc = "cloudscraper"
    /\ ~cloudscraper
    /\ fpc' = "playwright"
    /\ UNCHANGED <<furl, flog, fres, envVars, resolveVars, netVars, crawlVars, pageVars>>

\* lines 76-79, sync_playwright is None
FetchNoPlaywright ==
    /\ fpc = "playwright"
    /\ ~sync_playwright
    /\ fpc' = "ret"
    /\ fres' = Raised
    /\ UNCHANGED <<furl, flog, envVars, resolveVars, netVars, crawlVars, pageVars>>

\* lines 81-95
FetchPlaywright(o) ==
    /\ fpc = "playwright"
    /\ sync_playwright
    /\ flog' = Append(flog, [by |-> "playwright", o |-> o])
    /\ fpc' = "ret"
    /\ fres' = IF PlaywrightOk(o) THEN Returned(o.body) ELSE Raised
    /\ UNCHANGED <<furl, envVars, resolveVars, netVars, crawlVars, pageVars>>

--------------------------------------------------------------------------
(* AI_Weekly: resolve_redirect, one request per step.  A request's outcome *)
(* is an exception or the final URL of the redirect-following request.     *)

ExcR == [exc |-> TRUE, url |-> <<>>]
Final(u) == [exc |-> FALSE, url |-> u]

NoResult == [raised |-> FALSE, url |-> <<>>]

\* line 107: return final
ResolveReturn(final) == [raised |-> FALSE, url |-> final]

\* A resolve_redirect whose exception escapes.
ResolveExcept_Escapes(url) == [raised |-> TRUE, url |-> <<>>]

\* lines 108-109: except Exception: return url
ResolveExcept(url) == [raised |-> FALSE, url |-> url]

BeginResolve(url) ==
    /\ rpc' = "head"
    /\ rurl' = url
    /\ rlog' = <<>>
    /\ rres' = NoResult

\* resolve_redirect has returned and its caller has taken the result.
EndResolve ==
    /\ rpc' = "idle"
    /\ rurl' = <<>>
    /\ rlog' = <<>>
    /\ rres' = NoResult

\* A resolve_redirect that takes the answer of the HEAD request as it comes.
ResolveHead_NeverGet(o) ==
    /\ rpc = "head"
    /\ rlog' = Append(rlog, [by |-> "head", o |-> o])
    /\ rpc' = "ret"
    /\ rres' = IF o.exc THEN ResolveExcept(rurl) ELSE ResolveReturn(o.url)
    /\ UNCHANGED <<rurl, envVars, fetchVars, netVars, crawlVars, pageVars>>

\* lines 100-104 and 107-109: the HEAD request
ResolveHead(o) ==
    /\ rpc = "head"
    /\ rlog' = Append(rlog, [by |-> "head", o |-> o])
    /\ IF o.exc THEN rpc' = "ret" /\ rres' = ResolveExcept(rurl)
       ELSE IF o.url = rurl THEN rpc' = "get" /\ UNCHANGED rres
       ELSE rpc' = "ret" /\ rres' = ResolveReturn(o.url)
    /\ UNCHANGED <<rurl, envVars, fetchVars, netVars, crawlVars, pageVars>>

\* lines 105-109: the GET request
ResolveGet(o) ==
    /\ rpc = "get"
    /\ rlog' = Append(rlog, [by |-> "get", o |-> o])
    /\ rpc' = "ret"
    /\ rres' = IF o.exc THEN ResolveExcept(rurl) ELSE ResolveReturn(o.url)
    /\ UNCHANGED <<rurl, envVars, fetchVars, netVars, crawlVars, pageVars>>

--------------------------------------------------------------------------
(* AI_Weekly: find_latest_issue_url and parse_issue. *)

BASE == <<"https://aiweekly.co">>
HOME == BASE \o <<"/">>

HostToks ==
    {"https://aiweekly.co", "https://cur.at", "https://ex.com", "https://huggingface.co",
     "https://techcrunch.com", "https://www.qbitai.com", "https://syncedreview.com",
     "https://www.jiqizhixin.com", "https://link.baai.ac.cn", "https://hub.baai.ac.cn",
     "http://hub.baai.ac.cn"}

\* href.startswith("http")
StartsWithHttp(h) == Len(h) > 0 /\ h[1] \in HostToks

\* href.startswith("/")
StartsWithSlash(h) == Len(h) > 0 /\ h[1] \notin HostToks /\ h[1] \notin (QueryToks \cup FragToks)

\* "aiweekly.co" in href
ContainsAiweekly(h) == \E i \in 1..Len(h) : h[i] \in {"https://aiweekly.co", "?ref=aiweekly.co"}

\* re.search(r"/issues/\d+", href)
IssueRe(h) == \E i \in 1..Len(h) : h[i] \in {"/issues/1", "/issues/2", "?next=/issues/1"}

\* lines 123-127 and 135-138: the issue URL made of a matching href.
IssueUrl(h) ==
    LET href == SplitFirst(h, QueryToks) IN
    RStripSlash(IF StartsWithHttp(href) THEN href ELSE BASE \o href)

\* lines 122-127: the first <a> of the home page whose href, cut at "?", matches;
\* <<>> when there is none.
FindHomeIssue(page) ==
    LET as == page.anchors
        hit(i) == IssueRe(SplitFirst(as[i].href, QueryToks))
    IN IF \E i \in 1..Len(as) : hit(i)
       THEN IssueUrl(as[CHOOSE i \in 1..Len(as) : hit(i) /\ \A j \in 1..(i - 1) : ~hit(j)].href)
       ELSE <<>>

\* lines 133-138: soup.find("a", href=re.compile(...)) on the archive page.
FindArchiveIssue(page) ==
    LET as == page.anchors
        hit(i) == IssueRe(as[i].href)
    IN IF \E i \in 1..Len(as) : hit(i)
       THEN IssueUrl(as[CHOOSE i \in 1..Len(as) : hit(i) /\ \A j \in 1..(i - 1) : ~hit(j)].href)
       ELSE <<>>

\* A loop over the sections that reads the advertisement blocks too.
InCategorySection_AdsToo(a) == a.ctx \in {"cat", "ad"}

\* lines 165-167: the section of the anchor is a section.category that carries no
\* advertisement class.
InCategorySection(a) == a.ctx = "cat"

\* line 176
IssueNorm(href) == RStripSlash(SplitFirst(href, QueryToks))

RECURSIVE ParseIssueLoop(_, _, _, _)
\* lines 160-182: links after the anchors from i on.
ParseIssueLoop(as, i, links, seen) ==
    IF i > Len(as) THEN links
    ELSE LET href == as[i].href IN
         IF ~InCategorySection(as[i]) THEN ParseIssueLoop(as, i + 1, links, seen)
         ELSE IF StartsWithSlash(href) \/ ContainsAiweekly(href)
         THEN ParseIssueLoop(as, i + 1, links, seen)
         ELSE IF IssueNorm(href) \in seen THEN ParseIssueLoop(as, i + 1, links, seen)
         ELSE ParseIssueLoop(as, i + 1, Append(links, href), seen \cup {IssueNorm(href)})

\* parse_issue(issue_html)[1]
parse_issue(page) == ParseIssueLoop(page.anchors, 1, <<>>, {})

--------------------------------------------------------------------------
(* AI_Weekly: crawl. *)

\* urlparse(url).netloc.endswith("cur.at")
IsCurAt(url) == Len(url) > 0 /\ url[1] = "https://cur.at"

Record(url, title, date, content) ==
    [url |-> url, title |-> title, date |-> date, content |-> content]

\* line 245
AwStart ==
    /\ site = "aiweekly" /\ pc = "start"
    /\ pc' = "home"
    /\ BeginFetch(HOME)
    /\ UNCHANGED <<envVars, resolveVars, netVars, issue_date, urls, idx, attempt,
                   saved, out, itemlog, summary, pageVars>>

\* lines 245-254: fetch_html(HOME) is back; find_latest_issue_url up to its
\* fetch of the archive, or up to the fetch of the issue page.
AwHome ==
    /\ site = "aiweekly" /\ pc = "home" /\ fpc = "ret"
    /\ IF fres.raised THEN pc' = "aborted" /\ EndFetch
       ELSE IF FindHomeIssue(fres.body) # <<>>
            THEN pc' = "issue" /\ BeginFetch(FindHomeIssue(fres.body))
            ELSE pc' = "archive" /\ BeginFetch(BASE \o <<"/issues">>)
    /\ UNCHANGED <<envVars, resolveVars, netVars, issue_date, urls, idx, attempt,
                   saved, out, itemlog, summary, pageVars>>

\* lines 130-142 and 254: fetch_html(BASE + "/issues") is back.
AwArchive ==
    /\ site = "aiweekly" /\ pc = "archive" /\ fpc = "ret"
    /\ IF ~fres.raised /\ FindArchiveIssue(fres.body) # <<>>
       THEN pc' = "issue" /\ BeginFetch(FindArchiveIssue(fres.body))
       ELSE pc' = "aborted" /\ EndFetch
    /\ UNCHANGED <<envVars, resolveVars, netVars, issue_date, urls, idx, attempt,
                   saved, out, itemlog, summary, pageVars>>

\* lines 254-266: fetch_html(latest_issue_url) is back; parse_issue, the slice,
\* the output file opened.
AwIssue ==
    /\ site = "aiweekly" /\ pc = "issue" /\ fpc = "ret"
    /\ EndFetch
    /\ IF fres.raised THEN pc' = "aborted" /\ UNCHANGED <<issue_date, urls, idx>>
       ELSE /\ pc' = "loop"
            /\ issue_date' = fres.body.date
            /\ urls' = Take(parse_issue(fres.body), limit)
            /\ idx' = 1
    /\ UNCHANGED <<envVars, resolveVars, netVars, attempt, saved, out, itemlog, summary, pageVars>>

\* lines 267-269 and 287: the for loop takes the next url, or ends and the
\* summary is printed.
AwLoop ==
    /\ site = "aiweekly" /\ pc = "loop"
    /\ IF idx <= Len(urls)
       THEN pc' = "attempt" /\ attempt' = 0 /\ itemlog' = <<>> /\ UNCHANGED summary
       ELSE pc' = "done" /\ summary' = <<saved, Len(urls)>> /\ UNCHANGED <<attempt, itemlog>>
    /\ UNCHANGED <<envVars, fetchVars, resolveVars, netVars, issue_date, urls, idx,
                   saved, out, pageVars>>

\* lines 270-271 and 189-195: one attempt begins; extract_article up to its
\* first request.
AwAttempt ==
    /\ site = "aiweekly" /\ pc = "attempt"
    /\ itemlog' = Append(itemlog, "try")
    /\ IF IsCurAt(urls[idx])
       THEN pc' = "resolving" /\ BeginResolve(urls[idx]) /\ UNCHANGED fetchVars
       ELSE pc' = "article" /\ BeginFetch(urls[idx]) /\ UNCHANGED resolveVars
    /\ UNCHANGED <<envVars, netVars, issue_date, urls, idx, attempt, saved, out, summary, pageVars>>

\* A retry loop that tries once more.
AwFailed_Range4 ==
    IF attempt = 3
    THEN /\ pc' = "loop" /\ idx' = idx + 1
         /\ itemlog' = Append(itemlog, "skip")
         /\ UNCHANGED attempt
    ELSE /\ pc' = "attempt" /\ attempt' = attempt + 1
         /\ itemlog' = Append(itemlog, "sleep2")
         /\ UNCHANGED idx

\* The attempt of lines 270-278 failed.
AwFailed ==
    IF attempt = 2
    THEN /\ pc' = "loop" /\ idx' = idx + 1
         /\ itemlog' = Append(itemlog, "skip")
         /\ UNCHANGED attempt
    ELSE /\ pc' = "attempt" /\ attempt' = attempt + 1
         /\ itemlog' = Append(itemlog, "sleep2")
         /\ UNCHANGED idx

\* lines 191-195: resolve_redirect is back.
AwResolved ==
    /\ site = "aiweekly" /\ pc = "resolving" /\ rpc = "ret"
    /\ EndResolve
    /\ IF rres.raised
       THEN AwFailed /\ UNCHANGED fetchVars
       ELSE /\ pc' = "article"
            /\ BeginFetch(IF rres.url # urls[idx] THEN rres.url ELSE urls[idx])
            /\ UNCHANGED <<idx, attempt, itemlog>>
    /\ UNCHANGED <<envVars, netVars, issue_date, urls, saved, out, summary, pageVars>>

\* A loop that writes the URL it fetched in place of the candidate URL.
AwArticle_WritesFetchedUrl ==
    /\ site = "aiweekly" /\ pc = "article" /\ fpc = "ret"
    /\ EndFetch
    /\ IF fres.raised \/ ExtractRaises(furl, fres.body)
       THEN AwFailed /\ UNCHANGED <<saved, out>>
       ELSE /\ out' = Append(out, Record(furl, fres.body.title, issue_date,
                                         ExtractContent(furl, fres.body)))
            /\ saved' = saved + 1
            /\ itemlog' = Append(itemlog, "rate")
            /\ pc' = "loop" /\ idx' = idx + 1
            /\ UNCHANGED attempt
    /\ UNCHANGED <<envVars, resolveVars, netVars, issue_date, urls, summary, pageVars>>

\* lines 195-239 and 272-285: fetch_html(url) is back; the rest of
\* extract_article, then the except clause or the record written.
AwArticle ==
    /\ site = "aiweekly" /\ pc = "article" /\ fpc = "ret"
    /\ EndFetch
    /\ IF fres.raised \/ ExtractRaises(furl, fres.body)
       THEN AwFailed /\ UNCHANGED <<saved, out>>
       ELSE /\ out' = Append(out, Record(urls[idx], fres.body.title, issue_date,
                                         ExtractContent(furl, fres.body)))
            /\ saved' = saved + 1
            /\ itemlog' = Append(itemlog, "rate")
            /\ pc' = "loop" /\ idx' = idx + 1
            /\ UNCHANGED attempt
    /\ UNCHANGED <<envVars, resolveVars, netVars, issue_date, urls, summary, pageVars>>

--------------------------------------------------------------------------
(* The static-list crawlers: Huggingface_Blog (hfb), Huggingface_trending_  *)
(* paper (hfp), TechCrunch_AI (tec), 量子位 (lzw), Synced_Review (sync).    *)

StaticSites == {"hfb", "hfp", "tec", "lzw", "sync"}

SiteBase(s) ==
    CASE s = "hfb" -> <<"https://huggingface.co">>
      [] s = "hfp" -> <<"https://huggingface.co">>
      [] s = "tec" -> <<"https://techcrunch.com">>
      [] s = "lzw" -> <<"https://www.qbitai.com">>
      [] s = "sync" -> <<"https://syncedreview.com">>
      [] OTHER -> BASE

\* The first path segment of the article links of the two Hugging Face listings.
HfSection(s) == IF s = "hfb" THEN "/blog" ELSE "/papers"

\* href.startswith("/blog/"), href.startswith("/papers/"), a[href^='/blog/']
StartsWithSection(s, h) ==
    Len(h) >= 2 /\ h[1] = HfSection(s) /\ h[2] \notin (QueryToks \cup FragToks)

\* href.split("?", 1)[0].split("#", 1)[0]
HfNorm(h) == SplitFirst(SplitFirst(h, QueryToks), FragToks)

InSeq(x, s) == \E k \in 1..Len(s) : s[k] = x

RECURSIVE HfbCards(_, _, _)
\* Huggingface_Blog lines 52-61: the first <a href> of each BlogThumbnail card.
HfbCards(as, i, links) ==
    IF i > Len(as) THEN links
    ELSE LET href == HfNorm(as[i].href) IN
         IF as[i].ctx # "card" THEN HfbCards(as, i + 1, links)
         ELSE IF RStripSlash(href) = <<"/blog">> THEN HfbCards(as, i + 1, links)
         ELSE IF ~InSeq(href, links) /\ StartsWithSection("hfb", href)
         THEN HfbCards(as, i + 1, Append(links, href))
         ELSE HfbCards(as, i + 1, links)

RECURSIVE HfbAnyLink(_, _, _)
\* Huggingface_Blog lines 65-71: any a[href^='/blog/'].
HfbAnyLink(as, i, links) ==
    IF i > Len(as) THEN links
    ELSE LET href == HfNorm(as[i].href) IN
         IF ~StartsWithSection("hfb", as[i].href) THEN HfbAnyLink(as, i + 1, links)
         ELSE IF RStripSlash(href) = <<"/blog">> THEN HfbAnyLink(as, i + 1, links)
         ELSE IF ~InSeq(href, links) THEN HfbAnyLink(as, i + 1, Append(links, href))
         ELSE HfbAnyLink(as, i + 1, links)

RECURSIVE HfpCards(_, _, _)
\* Huggingface_trending_paper lines 53-60: the first <a href> of each <article>.
HfpCards(as, i, links) ==
    IF i > Len(as) THEN links
    ELSE LET href == HfNorm(as[i].href) IN
         IF as[i].ctx # "card" THEN HfpCards(as, i + 1, links)
         ELSE IF StartsWithSection("hfp", href) /\ ~InSeq(href, links)
         THEN HfpCards(as, i + 1, Append(links, href))
         ELSE HfpCards(as, i + 1, links)

RECURSIVE HfpAnyLink(_, _, _)
\* Huggingface_trending_paper lines 63-68: any a[href^='/papers/'].
HfpAnyLink(as, i, links) ==
    IF i > Len(as) THEN links
    ELSE LET href == HfNorm(as[i].href) IN
         IF ~StartsWithSection("hfp", as[i].href) THEN HfpAnyLink(as, i + 1, links)
         ELSE IF ~InSeq(href, links) THEN HfpAnyLink(as, i + 1, Append(links, href))
         ELSE HfpAnyLink(as, i + 1, links)

\* [BASE + path for path in links]
WithBase(s, links) == [k \in 1..Len(links) |-> SiteBase(s) \o links[k]]

\* Whether the fallback selector of a Hugging Face parse_list is consulted.
HfFallback(links) == links = <<>>

\* Huggingface_Blog parse_list
HfbParseList(page) ==
    LET links == HfbCards(page.anchors, 1, <<>>) IN
    WithBase("hfb", IF HfFallback(links) THEN HfbAnyLink(page.anchors, 1, <<>>) ELSE links)

\* Huggingface_trending_paper parse_list
HfpParseList(page) ==
    LET links == HfpCards(page.anchors, 1, <<>>) IN
    WithBase("hfp", IF HfFallback(links) THEN HfpAnyLink(page.anchors, 1, <<>>) ELSE links)

\* TechCrunch_AI lines 36-43: the selectors, in the order of the loop, and the
\* selectors an anchor in each structural context matches.
TecSelectors == 1..5
TecMatches(css, a) ==
    css \in (CASE a.ctx = "post-block" -> {1, 2, 5}
               [] a.ctx = "h2" -> {2}
               [] a.ctx = "loop-card" -> {3}
               [] a.ctx = "ga" -> {4}
               [] a.ctx = "div-post-block" -> {5}
               [] OTHER -> {})

RECURSIVE TecLoop(_, _, _, _)
\* TechCrunch_AI lines 43-48: links after the selectors from css on, the anchors
\* of css from i on.
TecLoop(as, css, i, links) ==
    IF css \notin TecSelectors THEN links
    ELSE IF i > Len(as) THEN TecLoop(as, css + 1, 1, links)
    ELSE LET href == SplitFirst(as[i].href, QueryToks) IN
         IF TecMatches(css, as[i]) /\ ~InSeq(href, links)
         THEN TecLoop(as, css, i + 1, Append(links, href))
         ELSE TecLoop(as, css, i + 1, links)

\* TechCrunch_AI parse_list
TecParseList(page) == TecLoop(page.anchors, 1, 1, <<>>)

\* 量子位 lines 32-56: the anchors each tier selects.
LzwMatches(tier, a) ==
    CASE tier = 1 -> a.ctx \in {"entry-title", "entry-title-in-article"}
      [] tier = 2 -> a.ctx \in {"article", "entry-title-in-article"}
      [] OTHER -> a.ctx = "picture_text"

\* 量子位 lines 33-37: url = a_tag["href"], made absolute.
LzwUrl(h) == IF StartsWithHttp(h) THEN h ELSE SiteBase("lzw") \o h

RECURSIVE LzwTier(_, _, _, _)
LzwTier(as, tier, i, results) ==
    IF i > Len(as) THEN results
    ELSE IF LzwMatches(tier, as[i])
    THEN LzwTier(as, tier, i + 1, Append(results, LzwUrl(as[i].href)))
    ELSE LzwTier(as, tier, i + 1, results)

\* 量子位 parse_list
LzwParseList(page) ==
    LET r1 == LzwTier(page.anchors, 1, 1, <<>>)
        r2 == IF r1 = <<>> THEN LzwTier(page.anchors, 2, 1, <<>>) ELSE r1
    IN  IF r2 = <<>> THEN LzwTier(page.anchors, 3, 1, <<>>) ELSE r2

RECURSIVE SyncLoop(_, _, _)
\* Synced_Review lines 33-37
SyncLoop(as, i, links) ==
    IF i > Len(as) THEN links
    ELSE IF as[i].ctx # "entry-title" THEN SyncLoop(as, i + 1, links)
    ELSE SyncLoop(as, i + 1,
             Append(links, IF StartsWithSlash(as[i].href)
                           THEN SiteBase("sync") \o as[i].href ELSE as[i].href))

\* Synced_Review parse_list
SyncParseList(page) == SyncLoop(page.anchors, 1, <<>>)

parse_list(s, page) ==
    CASE s = "hfb" -> HfbParseList(page)
      [] s = "hfp" -> HfpParseList(page)
      [] s = "tec" -> TecParseList(page)
      [] s = "lzw" -> LzwParseList(page)
      [] s = "sync" -> SyncParseList(page)
      [] OTHER -> parse_issue(page)

--------------------------------------------------------------------------
(* The static-list crawlers: fetch_html, fetch_detail and crawl. *)

\* r.raise_for_status()
RaiseForStatus(o) == o.status >= 400

\* Whether fetch_html tries again after its failed try number i (from 0):
\* Huggingface_Blog lines 32-41, Huggingface_trending_paper lines 33-42.
HfRetries(s, i) == s \in {"hfb", "hfp"} /\ i # 2

\* fetch_html of a static-list crawler: one session.get / requests.get.
StGet(o) ==
    /\ site \in StaticSites /\ fpc = "get"
    /\ flog' = Append(flog, [by |-> "requests", o |-> o])
    /\ IF ~o.exc /\ ~RaiseForStatus(o)
       THEN fpc' = "ret" /\ fres' = Returned(o.body)
       ELSE IF HfRetries(site, Len(flog))
            THEN UNCHANGED <<fpc, fres>>
            ELSE fpc' = "ret" /\ fres' = Raised
    /\ UNCHANGED <<furl, envVars, resolveVars, netVars, crawlVars, pageVars>>

BeginGet(url) ==
    /\ fpc' = "get"
    /\ furl' = url
    /\ flog' = <<>>
    /\ fres' = Raised

\* absolutize of the static-list crawlers
StAbsolutize(s, src) ==
    IF src \in {"http://img/a.png"} THEN <<src>> ELSE SiteBase(s) \o <<src>>

RECURSIVE StSegments(_, _, _, _)
\* The loops of fetch_detail over the content node: Huggingface_Blog lines
\* 98-108, TechCrunch_AI lines 72-74, 量子位 lines 80-88, Synced_Review lines
\* 61-69, Huggingface_trending_paper lines 90-93.
StSegments(s, elems, i, segs) ==
    IF i > Len(elems) THEN segs
    ELSE LET e == elems[i] IN
         IF e.tag = "img" THEN
             StSegments(s, elems, i + 1,
                 IF s \in {"hfb", "lzw", "sync"} /\ e.text # ""
                 THEN Append(segs, StAbsolutize(s, e.text)) ELSE segs)
         ELSE IF e.text = "" THEN StSegments(s, elems, i + 1, segs)
         ELSE IF s = "lzw" THEN StSegments(s, elems, i + 1, segs \o <<(<<e.text>>), (<<e.text>>)>>)
         ELSE IF e.tag = "p" \/ s = "sync" THEN StSegments(s, elems, i + 1, Append(segs, <<e.text>>))
         ELSE StSegments(s, elems, i + 1, segs)

\* fetch_detail(url) after fetch_html, and the record crawl() makes of it. The
\* anchors of the model carry no text, so 量子位's title of the list entry, used
\* when the page has no title, is the empty title too.
StDetailRecord(s, url, page) ==
    Record(url, page.title,
           IF s \in {"hfb", "hfp"} THEN "" ELSE page.date,
           StSegments(s, page.elems, 1, <<>>))

\* Whether crawl() wraps fetch_detail in try/except: TechCrunch_AI lines
\* 103-107, Synced_Review lines 85-89.
StCatches(s) == s \in {"tec", "sync"}

LIST_URL(s) ==
    CASE s = "hfb" -> SiteBase(s) \o <<"/blog">>
      [] s = "hfp" -> SiteBase(s) \o <<"/papers", "/trending">>
      [] s = "tec" -> SiteBase(s) \o <<"/category", "/artificial-intelligence", "/">>
      [] OTHER -> SiteBase(s) \o <<"/">>

\* list_html = fetch_html(LIST_URL)
StStart ==
    /\ site \in StaticSites /\ pc = "start"
    /\ pc' = "list"
    /\ BeginGet(LIST_URL(site))
    /\ UNCHANGED <<envVars, resolveVars, netVars, issue_date, urls, idx, attempt,
                   saved, out, itemlog, summary, pageVars>>

\* urls = parse_list(list_html)[:limit]
StList ==
    /\ site \in StaticSites /\ pc = "list" /\ fpc = "ret"
    /\ EndFetch
    /\ IF fres.raised THEN pc' = "aborted" /\ UNCHANGED <<urls, idx>>
       ELSE pc' = "loop" /\ urls' = Take(parse_list(site, fres.body), limit) /\ idx' = 1
    /\ UNCHANGED <<envVars, resolveVars, netVars, issue_date, attempt, saved, out,
                   itemlog, summary, pageVars>>

\* for url in urls: fetch_detail(url) up to its request; after the loop the
\* summary, which reports len(urls).
StLoop ==
    /\ site \in StaticSites /\ pc = "loop"
    /\ IF idx <= Len(urls)
       THEN pc' = "detail" /\ BeginGet(urls[idx]) /\ itemlog' = <<>> /\ UNCHANGED summary
       ELSE pc' = "done" /\ summary' = <<Len(urls)>> /\ UNCHANGED <<fetchVars, itemlog>>
    /\ UNCHANGED <<envVars, resolveVars, netVars, issue_date, urls, idx, attempt, saved, out, pageVars>>

\* The loop keeping its records back instead of writing them.
StDetail_Buffered ==
    /\ site \in StaticSites /\ pc = "detail" /\ fpc = "ret"
    /\ EndFetch
    /\ IF ~fres.raised \/ StCatches(site)
       THEN /\ itemlog' = Append(itemlog, IF fres.raised THEN "skip" ELSE "rate")
            /\ pc' = "loop" /\ idx' = idx + 1
       ELSE pc' = "aborted" /\ UNCHANGED <<idx, itemlog>>
    /\ UNCHANGED <<envVars, resolveVars, netVars, issue_date, urls, attempt, saved, out,
                   summary, pageVars>>

\* fetch_html(url) is back: the rest of fetch_detail, the record written and the
\* pause, or the except clause, or the exception leaving crawl().
StDetail ==
    /\ site \in StaticSites /\ pc = "detail" /\ fpc = "ret"
    /\ EndFetch
    /\ IF ~fres.raised
       THEN /\ out' = Append(out, StDetailRecord(site, urls[idx], fres.body))
            /\ itemlog' = Append(itemlog, "rate")
            /\ pc' = "loop" /\ idx' = idx + 1
       ELSE IF StCatches(site)
       THEN /\ itemlog' = Append(itemlog, "skip")
            /\ pc' = "loop" /\ idx' = idx + 1
            /\ UNCHANGED out
       ELSE pc' = "aborted" /\ UNCHANGED <<out, idx, itemlog>>
    /\ UNCHANGED <<envVars, resolveVars, netVars, issue_date, urls, attempt, saved, summary, pageVars>>

--------------------------------------------------------------------------
(* 机器之心: crawl() over the paginated JSON API. *)

\* Stands for per = 20, the most articles one page of the API carries.
PerPage == 2

\* The most page requests one run of the model makes.
MaxPages == 2

JqBASE == <<"https://www.jiqizhixin.com">>

Article(slug, t, d, html) ==
    [slug |-> slug, title |-> t, publishedAt |-> d, content |-> html]

\* absolutize inside parse_article_from_json
JqAbsolutize(u) == IF u \in {"http://img/a.png"} THEN <<u>> ELSE JqBASE \o <<u>>

RECURSIVE JqParts(_, _, _)
\* The loop over soup.descendants: parts after the nodes from i on.
JqParts(elems, i, parts) ==
    IF i > Len(elems) THEN parts
    ELSE LET e == elems[i] IN
         IF e.tag = "img"
         THEN JqParts(elems, i + 1,
                  IF e.text # "" THEN Append(parts, JqAbsolutize(e.text)) ELSE parts)
         ELSE JqParts(elems, i + 1,
                  IF e.text # "" THEN Append(parts, <<e.text>>) ELSE parts)

DetailExc == [exc |-> TRUE, content |-> <<>>]
Detail(html) == [exc |-> FALSE, content |-> html]

\* parse_article_from_json(item), d what the detail API answers. An item
\* without "slug" raises KeyError.
parse_article_from_json(item, d) ==
    [raised |-> item.slug = "",
     rec |-> Record(JqBASE \o <<"/articles", item.slug>>, item.title, item.publishedAt,
                    JqParts(IF d.exc THEN item.content ELSE d.content, 1, <<>>))]

PageExc == [exc |-> TRUE, items |-> <<>>]

\* The entry of reqs for a page request, and the last entry changed.
PageReq(c) == [cursor |-> c, got |-> 0, failed |-> 0]
GotItems(rs, n) == [rs EXCEPT ![Len(rs)].got = n]
FailedItem(rs) == [rs EXCEPT ![Len(rs)].failed = @ + 1]
PageOf(items) == [exc |-> FALSE, items |-> items]

\* saved = 0; page = 1; per = 20
JqStart ==
    /\ site = "jqzx" /\ pc = "start"
    /\ pc' = "while"
    /\ saved' = 0 /\ cursor' = 1
    /\ UNCHANGED <<envVars, fetchVars, resolveVars, netVars, issue_date, urls, idx,
                   attempt, out, itemlog, summary, batch, bidx, reqs>>

\* The loop with the test saved <= limit.
JqWhile_OneTooMany ==
    /\ site = "jqzx" /\ pc = "while"
    /\ IF saved <= limit
       THEN /\ Len(reqs) < MaxPages
            /\ pc' = "page" /\ reqs' = Append(reqs, PageReq(cursor)) /\ UNCHANGED summary
       ELSE pc' = "done" /\ summary' = <<saved>> /\ UNCHANGED reqs
    /\ UNCHANGED <<envVars, fetchVars, resolveVars, netVars, issue_date, urls, idx,
                   attempt, saved, out, itemlog, cursor, batch, bidx>>

\* while saved < limit: the request of fetch_json(page, per); after the loop
\* the summary.
JqWhile ==
    /\ site = "jqzx" /\ pc = "while"
    /\ IF saved < limit
       THEN /\ Len(reqs) < MaxPages
            /\ pc' = "page" /\ reqs' = Append(reqs, PageReq(cursor)) /\ UNCHANGED summary
       ELSE pc' = "done" /\ summary' = <<saved>> /\ UNCHANGED reqs
    /\ UNCHANGED <<envVars, fetchVars, resolveVars, netVars, issue_date, urls, idx,
                   attempt, saved, out, itemlog, cursor, batch, bidx>>

\* data = fetch_json(page, per) is back or raises; if not articles: break
JqPage(o) ==
    /\ site = "jqzx" /\ pc = "page"
    /\ IF o.exc THEN pc' = "aborted" /\ UNCHANGED <<batch, bidx, summary, reqs>>
       ELSE IF o.items = <<>>
       THEN pc' = "done" /\ summary' = <<saved>> /\ UNCHANGED <<batch, bidx, reqs>>
       ELSE /\ pc' = "items" /\ batch' = o.items /\ bidx' = 1
            /\ reqs' = GotItems(reqs, Len(o.items))
            /\ UNCHANGED summary
    /\ UNCHANGED <<envVars, fetchVars, resolveVars, netVars, issue_date, urls, idx,
                   attempt, saved, out, itemlog, cursor>>

\* One turn of for art in articles, below the limit: the record is written,
\* counted and followed by the pause, or the except clause prints.
JqItem(d) ==
    /\ site = "jqzx" /\ pc = "items"
    /\ bidx <= Len(batch) /\ saved < limit
    /\ LET r == parse_article_from_json(batch[bidx], d) IN
       IF r.raised
       THEN /\ itemlog' = <<"skip">>
            /\ reqs' = FailedItem(reqs)
            /\ UNCHANGED <<out, saved>>
       ELSE /\ out' = Append(out, r.rec)
            /\ saved' = saved + 1
            /\ itemlog' = <<"rate">>
            /\ UNCHANGED reqs
    /\ bidx' = bidx + 1
    /\ UNCHANGED <<envVars, fetchVars, resolveVars, netVars, pc, issue_date, urls, idx,
                   attempt, summary, cursor, batch>>

\* The for loop is over, by exhaustion or by break: page += 1
JqPageEnd ==
    /\ site = "jqzx" /\ pc = "items"
    /\ bidx > Len(batch) \/ saved >= limit
    /\ cursor' = cursor + 1
    /\ pc' = "while"
    /\ UNCHANGED <<envVars, fetchVars, resolveVars, netVars, issue_date, urls, idx,
                   attempt, saved, out, itemlog, summary, batch, bidx, reqs>>

--------------------------------------------------------------------------
(* 新智源: crawl() over the account timeline. *)

\* Stands for the 40 characters a fallback title keeps.
TitleLen == 2

HubHosts == {"https://hub.baai.ac.cn", "http://hub.baai.ac.cn"}
HubViews == {"/view/1", "/view/2"}

\* HUB_PATTERN.match(href): the pattern at the start of href.
HubMatch(h) == Len(h) >= 2 /\ h[1] \in HubHosts /\ h[2] \in HubViews

\* A status of the timeline: text the words of its content, anchors the
\* hrefs of its <a> tags.
Status(id, url, d, text, anchors) ==
    [id |-> id, url |-> url, created_at |-> d, text |-> text, anchors |-> anchors]

\* for a in soup.find_all("a", href=True): the first href matching, else <<>>.
HubAnchor(anchors) ==
    IF \E i \in 1..Len(anchors) : HubMatch(anchors[i])
    THEN anchors[CHOOSE i \in 1..Len(anchors) :
                     HubMatch(anchors[i]) /\ \A k \in 1..(i - 1) : ~HubMatch(anchors[k])]
    ELSE <<>>

\* HUB_PATTERN.search(text_short).group(): the first match in the text, else <<>>.
HubSearch(text) ==
    LET Hit(i) == text[i] \in HubHosts /\ text[i + 1] \in HubViews
        Is == {i \in 1..(Len(text) - 1) : Hit(i)}
    IN IF Is = {} THEN <<>>
       ELSE LET i == CHOOSE k \in Is : \A m \in Is : k <= m IN <<text[i], text[i + 1]>>

RECURSIVE Flatten(_)
\* " ".join(parts)
Flatten(parts) == IF parts = <<>> THEN <<>> ELSE Head(parts) \o Flatten(Tail(parts))

\* absolutize inside fetch_hub_article
HubAbsolutize(u) ==
    IF u \in {"http://img/a.png"} THEN <<u>> ELSE <<"https://hub.baai.ac.cn", u>>

RECURSIVE HubParts(_, _, _)
\* The loop over content_node.descendants.
HubParts(elems, i, parts) ==
    IF i > Len(elems) THEN parts
    ELSE LET e == elems[i] IN
         IF e.tag = "img"
         THEN HubParts(elems, i + 1,
                  IF e.text # "" THEN Append(parts, HubAbsolutize(e.text)) ELSE parts)
         ELSE HubParts(elems, i + 1,
                  IF e.text # "" THEN Append(parts, <<e.text>>) ELSE parts)

\* fetch_hub_article(url), o what the request gets: whether it raises, the
\* title and the text.
fetch_hub_article(o) ==
    [raised |-> o.exc \/ RaiseForStatus(o),
     title |-> IF o.body.title = "" THEN <<>> ELSE <<o.body.title>>,
     text |-> HubParts(o.body.elems, 1, <<>>)]

\* The record of the fallback branch.
FallbackRecord(item) ==
    Record(item.url,
           Take(item.text, TitleLen) \o
               (IF Len(item.text) > TitleLen THEN <<"...">> ELSE <<>>),
           item.created_at,
           IF item.text = <<>> THEN <<>> ELSE <<item.text>>)

\* parse_status keeping the status's own URL whatever it links to.
parse_status_OwnUrl(item, o) == FallbackRecord(item)

\* A search for the hub link that asks the rendered text before the anchors.
HubLink_TextFirst(item) ==
    LET by_text == HubSearch(item.text)
    IN IF by_text # <<>> THEN by_text ELSE HubAnchor(item.anchors)

\* hub_link of parse_status(item), <<>> for None
HubLink(item) ==
    LET by_anchor == HubAnchor(item.anchors)
    IN IF by_anchor # <<>> THEN by_anchor ELSE HubSearch(item.text)

\* parse_status(item), o what the request for the hub article gets, if made.
parse_status(item, o) ==
    LET hub_link == HubLink(item)
        hub == fetch_hub_article(o)
    IN IF hub_link # <<>> /\ ~hub.raised
       THEN Record(hub_link,
                   IF hub.title # <<>> THEN hub.title ELSE Take(Flatten(hub.text), TitleLen),
                   item.created_at,
                   IF hub.text # <<>> THEN hub.text
                   ELSE IF item.text = <<>> THEN <<>> ELSE <<item.text>>)
       ELSE FallbackRecord(item)

\* uid = lookup_uid(ACCOUNT); saved = 0; max_id = None
XzStart(ok) ==
    /\ site = "xzy" /\ pc = "start"
    /\ pc' = IF ok THEN "while" ELSE "aborted"
    /\ saved' = 0 /\ cursor' = ""
    /\ UNCHANGED <<envVars, fetchVars, resolveVars, netVars, issue_date, urls, idx,
                   attempt, out, itemlog, summary, batch, bidx, reqs>>

\* while saved < limit: the request of fetch_statuses(uid, max_id); after the
\* loop the summary.
XzWhile ==
    /\ site = "xzy" /\ pc = "while"
    /\ IF saved < limit
       THEN /\ Len(reqs) < MaxPages
            /\ pc' = "page" /\ reqs' = Append(reqs, PageReq(cursor)) /\ UNCHANGED summary
       ELSE pc' = "done" /\ summary' = <<saved>> /\ UNCHANGED reqs
    /\ UNCHANGED <<envVars, fetchVars, resolveVars, netVars, issue_date, urls, idx,
                   attempt, saved, out, itemlog, cursor, batch, bidx>>

\* statuses = fetch_statuses(uid, max_id) is back or raises; if not statuses: break
XzPage(o) ==
    /\ site = "xzy" /\ pc = "page"
    /\ IF o.exc THEN pc' = "aborted" /\ UNCHANGED <<batch, bidx, summary, reqs>>
       ELSE IF o.items = <<>>
       THEN pc' = "done" /\ summary' = <<saved>> /\ UNCHANGED <<batch, bidx, reqs>>
       ELSE /\ pc' = "items" /\ batch' = o.items /\ bidx' = 1
            /\ reqs' = GotItems(reqs, Len(o.items))
            /\ UNCHANGED summary
    /\ UNCHANGED <<envVars, fetchVars, resolveVars, netVars, issue_date, urls, idx,
                   attempt, saved, out, itemlog, cursor>>

\* A loop that leaves out the status whose hub article cannot be fetched.
XzItem_DropsOnHubFailure(o) ==
    /\ site = "xzy" /\ pc = "items"
    /\ bidx <= Len(batch) /\ saved < limit
    /\ flog' = IF HubLink(batch[bidx]) # <<>> THEN <<[by |-> "requests", o |-> o]>> ELSE <<>>
    /\ IF HubLink(batch[bidx]) # <<>> /\ fetch_hub_article(o).raised
       THEN UNCHANGED <<out, saved>>
       ELSE out' = Append(out, parse_status(batch[bidx], o)) /\ saved' = saved + 1
    /\ bidx' = bidx + 1
    /\ UNCHANGED <<envVars, fpc, furl, fres, resolveVars, netVars, pc, issue_date, urls, idx,
                   attempt, itemlog, summary, cursor, batch, reqs>>

\* One turn of for st in statuses, below the limit; flog keeps the request
\* for the hub article, if parse_status made one.
XzItem(o) ==
    /\ site = "xzy" /\ pc = "items"
    /\ bidx <= Len(batch) /\ saved < limit
    /\ out' = Append(out, parse_status(batch[bidx], o))
    /\ flog' = IF HubLink(batch[bidx]) # <<>> THEN <<[by |-> "requests", o |-> o]>> ELSE <<>>
    /\ saved' = saved + 1
    /\ bidx' = bidx + 1
    /\ UNCHANGED <<envVars, fpc, furl, fres, resolveVars, netVars, pc, issue_date, urls, idx,
                   attempt, itemlog, summary, cursor, batch, reqs>>

\* A loop that carries the id of the first status of the page forward.
XzPageEnd_FirstId ==
    /\ site = "xzy" /\ pc = "items"
    /\ bidx > Len(batch) \/ saved >= limit
    /\ cursor' = batch[1].id
    /\ itemlog' = <<"rate">>
    /\ pc' = "while"
    /\ UNCHANGED <<envVars, fetchVars, resolveVars, netVars, issue_date, urls, idx,
                   attempt, saved, out, summary, batch, bidx, reqs>>

\* The for loop is over: max_id = statuses[-1]["id"], then the pause.
XzPageEnd ==
    /\ site = "xzy" /\ pc = "items"
    /\ bidx > Len(batch) \/ saved >= limit
    /\ cursor' = batch[Len(batch)].id
    /\ itemlog' = <<"rate">>
    /\ pc' = "while"
    /\ UNCHANGED <<envVars, fetchVars, resolveVars, netVars, issue_date, urls, idx,
                   attempt, saved, out, summary, batch, bidx, reqs>>

--------------------------------------------------------------------------
(* The pages the network may serve. *)

ChallengePage == Page("Just a moment", "", <<Div("Verify You Are Human")>>, <<>>)

HomePages ==
    { Page("AI Weekly", "", <<>>, <<A(<<"/about">>, "none"), A(<<"/issues/2", "/", "?q">>, "none")>>),
      Page("AI Weekly", "", <<>>, <<A(<<"/about">>, "none")>>),
      ChallengePage }

ArchivePages ==
    { Page("Issues", "", <<>>, <<A(<<"https://aiweekly.co", "/issues/1">>, "none")>>),
      Page("Issues", "", <<>>, <<A(<<"/about">>, "none")>>) }

IssuePages ==
    { Page("Issue", "May 1st 2024", <<>>,
           <<A(<<"https://ex.com", "/a">>, "cat"), A(<<"https://cur.at", "/s", "?q">>, "cat"),
             A(<<"https://ex.com", "/a", "?q">>, "cat"), A(<<"https://ex.com", "/b">>, "ad")>>),
      Page("Issue", "", <<>>,
           <<A(<<"https://cur.at", "/s">>, "cat"), A(<<"https://ex.com", "/a">>, "cat"),
             A(<<"https://ex.com", "/b">>, "cat")>>),
      Page("Issue", "", <<>>, <<A(<<"/about">>, "cat")>>) }

DetailPages ==
    { Page("T", "", <<P("hello"), Img("c.png")>>, <<>>),
      Page("T", "", <<Div("hello"), Img("icon.svg")>>, <<>>),
      Page("Just a moment", "", <<P("Verify You Are Human")>>, <<>>),
      Page("T", "", <<Div("verify you are human"), P("hello")>>, <<>>),
      Page("T", "", <<>>, <<>>) }

\* A listing with two article links and a listing with none.
ListPages(s) ==
    LET l1 == CASE s = "hfb" -> <<A(<<"/blog", "/x">>, "card"), A(<<"/blog", "/y", "?q">>, "card")>>
                [] s = "hfp" -> <<A(<<"/papers", "/1">>, "card"), A(<<"/papers", "/2">>, "none")>>
                [] s = "tec" -> <<A(<<"https://techcrunch.com", "/x">>, "loop-card"),
                                  A(<<"https://techcrunch.com", "/y">>, "post-block")>>
                [] s = "lzw" -> <<A(<<"/x">>, "picture_text"),
                                  A(<<"https://www.qbitai.com", "/y">>, "picture_text")>>
                [] OTHER -> <<A(<<"/x">>, "entry-title"),
                              A(<<"https://syncedreview.com", "/y">>, "entry-title")>>
    IN { Page("List", "", <<>>, l1), Page("List", "", <<>>, <<A(<<"/about">>, "none")>>) }

\* The bodies a request made at this point of crawl() may get.
Bodies ==
    CASE pc = "home" -> HomePages
      [] pc = "archive" -> ArchivePages
      [] pc = "issue" -> IssuePages
      [] pc = "list" -> ListPages(site)
      [] OTHER -> DetailPages

FetchOutcomes == {Exc} \cup {Resp(st, b) : st \in Statuses, b \in Bodies}
BrowserOutcomes == {Exc} \cup {Resp(200, b) : b \in Bodies}

\* What the list API of 机器之心 and the detail API may answer.
Articles ==
    { Article("s1", "T1", "2024-05-01", <<P("summary"), Img("/i.png")>>),
      Article("", "T3", "", <<P("summary")>>) }
DetailOutcomes == {DetailExc, Detail(<<P("full"), Img("http://img/a.png")>>)}

\* What the timeline of 新智源 and the hub may answer.
TimelineStatuses ==
    { Status("103", <<"https://link.baai.ac.cn", "/@AI_era", "/103">>, "d3",
             <<"w1", "w2", "w3">>, <<>>),
      Status("102", <<"https://link.baai.ac.cn", "/@AI_era", "/102">>, "d2",
             <<"w1", "http://hub.baai.ac.cn", "/view/2">>,
             <<(<<"https://ex.com", "/a">>), (<<"https://hub.baai.ac.cn", "/view/1", "?q">>)>>),
      Status("101", <<"https://link.baai.ac.cn", "/@AI_era", "/101">>, "d1",
             <<"w1", "http://hub.baai.ac.cn", "/view/2", "w2">>, <<>>) }
HubOutcomes ==
    { Exc,
      Resp(200, Page("H", "", <<P("body"), Img("/h.png")>>, <<>>)),
      Resp(200, Page("", "", <<P("b1"), P("b2"), P("b3")>>, <<>>)) }

\* The sequences over S of at most n elements.
SeqsUpTo(S, n) == UNION {[1..k -> S] : k \in 0..n}

JqPageOutcomes == {PageExc} \cup {PageOf(items) : items \in SeqsUpTo(Articles, PerPage)}
XzPageOutcomes == {PageExc} \cup {PageOf(items) : items \in SeqsUpTo(TimelineStatuses, PerPage)}

RedirectTargets == { <<"https://ex.com", "/a">>, <<"https://ex.com", "/b", "/">> }
ResolveOutcomes == {ExcR} \cup {Final(u) : u \in RedirectTargets \cup {rurl}}

--------------------------------------------------------------------------
(* The runs of the crawlers. *)

Sites == {"aiweekly", "jqzx", "xzy"} \cup StaticSites

Init ==
    /\ site \in Sites
    /\ cloudscraper \in (IF site = "aiweekly" THEN BOOLEAN ELSE {FALSE})
    /\ sync_playwright \in (IF site = "aiweekly" THEN BOOLEAN ELSE {FALSE})
    /\ limit \in 0..MaxLimit
    /\ pc = "start"
    /\ fpc = "idle" /\ furl = <<>> /\ flog = <<>> /\ fres = Raised
    /\ rpc = "idle" /\ rurl = <<>> /\ rlog = <<>> /\ rres = NoResult
    /\ headNext = <<>> /\ getNext = <<>> /\ round = 0 /\ first = <<>>
    /\ issue_date = "" /\ urls = <<>> /\ idx = 1 /\ attempt = 0
    /\ saved = 0 /\ out = <<>> /\ itemlog = <<>> /\ summary = <<>>
    /\ cursor = <<>> /\ batch = <<>> /\ bidx = 1 /\ reqs = <<>>

Next ==
    \/ StStart
    \/ \E o \in FetchOutcomes : StGet(o)
    \/ StList
    \/ StLoop
    \/ StDetail
    \/ JqStart
    \/ JqWhile
    \/ \E o \in JqPageOutcomes : JqPage(o)
    \/ \E d \in DetailOutcomes : JqItem(d)
    \/ JqPageEnd
    \/ \E ok \in BOOLEAN : XzStart(ok)
    \/ XzWhile
    \/ \E o \in XzPageOutcomes : XzPage(o)
    \/ \E o \in HubOutcomes : XzItem(o)
    \/ XzPageEnd
    \/ AwStart
    \/ \E o \in FetchOutcomes : FetchRequests(o)
    \/ \E o \in FetchOutcomes : FetchCloudscraper(o)
    \/ FetchNoCloudscraper
    \/ FetchNoPlaywright
    \/ \E o \in BrowserOutcomes : FetchPlaywright(o)
    \/ \E o \in ResolveOutcomes : ResolveHead(o)
    \/ \E o \in ResolveOutcomes : ResolveGet(o)
    \/ AwHome
    \/ AwArchive
    \/ AwIssue
    \/ AwLoop
    \/ AwAttempt
    \/ AwResolved
    \/ AwArticle

Spec == Init /\ [][Next]_vars

--------------------------------------------------------------------------
(* Claims about AI_Weekly's fetch_html, resolve_redirect and retry loop. *)

\* Whether the request e of flog met its strategy's success condition.
Succeeded(e) ==
    /\ ~e.o.exc
    /\ e.by \in {"requests", "cloudscraper"} => e.o.status = 200
    /\ e.by = "requests" =>
          /\ ~HasMarker(Lower(e.o.body.title))
          /\ \A i \in 1..Len(e.o.body.elems) : ~HasMarker(Lower(e.o.body.elems[i].text))

Available ==
    {"requests"} \cup (IF cloudscraper THEN {"cloudscraper"} ELSE {})
                 \cup (IF sync_playwright THEN {"playwright"} ELSE {})

\* C1: a call of AI_Weekly's fetch_html that is over has raised only if every strategy
\* available in the environment was tried and failed; a strategy that succeeded
\* makes the call return that strategy's body; and with neither optional
\* strategy installed the direct GET alone decides.
C1_FetchRaisesOnlyWhenExhausted ==
    (site = "aiweekly" /\ fpc = "ret") =>
        /\ fres.raised =>
              \A s \in Available : \E i \in 1..Len(flog) : flog[i].by = s /\ ~Succeeded(flog[i])
        /\ \A i \in 1..Len(flog) :
              Succeeded(flog[i]) => ~fres.raised /\ fres.body = flog[i].o.body
        /\ ~fres.raised => \E i \in 1..Len(flog) : Succeeded(flog[i])
        /\ (~cloudscraper /\ ~sync_playwright) =>
              Len(flog) = 1 /\ (fres.raised <=> ~Succeeded(flog[1]))

\* C1: the three strategies were all tried and all failed, and the call raised.
C1_Witness ==
    /\ site = "aiweekly" /\ fpc = "ret" /\ fres.raised
    /\ cloudscraper /\ sync_playwright /\ Len(flog) = 3

Count(s, x) == Cardinality({i \in 1..Len(s) : s[i] = x})

\* C3: a candidate gets at most 3 attempts; an attempt is followed by the fixed
\* pause and the next attempt, by the record written (which ends the attempts), or
\* by the skip after the third failure; and the skip leaves the output and the
\* saved count as they were.
C3_RetryLoop ==
    /\ [](site = "aiweekly" =>
            /\ Count(itemlog, "try") <= 3
            /\ \A i \in 1..Len(itemlog) :
                  /\ itemlog[i] = "try" /\ i < Len(itemlog) =>
                        itemlog[i + 1] \in {"sleep2", "rate", "skip"}
                  /\ itemlog[i] = "sleep2" =>
                        i > 1 /\ itemlog[i - 1] = "try" /\ (i < Len(itemlog) => itemlog[i + 1] = "try")
                  /\ itemlog[i] \in {"rate", "skip"} => i = Len(itemlog)
                  /\ itemlog[i] = "skip" => Count(itemlog, "try") = 3)
    /\ [][(site = "aiweekly" /\ Len(itemlog') > 0 /\ itemlog'[Len(itemlog')] = "skip"
           /\ itemlog' # itemlog) => (out' = out /\ saved' = saved)]_vars

\* C3: a candidate was skipped after three failed attempts and two pauses.
C3_Witness ==
    /\ site = "aiweekly"
    /\ itemlog = <<"try", "sleep2", "try", "sleep2", "try", "skip">>

\* C8: resolve_redirect never raises: once over it has returned a URL, the input
\* URL when a request raised, and otherwise the final URL of its last request.
C8_ResolveNeverRaises ==
    rpc = "ret" =>
        /\ ~rres.raised
        /\ Len(rlog) >= 1
        /\ (\E i \in 1..Len(rlog) : rlog[i].o.exc) => rres.url = rurl
        /\ (\A i \in 1..Len(rlog) : ~rlog[i].o.exc) => rres.url = rlog[Len(rlog)].o.url

\* C8: the HEAD was not redirected, the GET raised, and the input came back.
C8_Witness ==
    /\ rpc = "ret" /\ Len(rlog) = 2 /\ rlog[2].o.exc /\ rres.url = rurl /\ ~rres.raised

\* The place of a strategy in the order of fetch_html.
Rank(by) == CASE by = "requests" -> 1 [] by = "cloudscraper" -> 2 [] OTHER -> 3

\* C19: within one call of AI_Weekly's fetch_html the attempts are in the
\* order direct GET, cloudscraper, Playwright, none made twice; no attempt
\* follows one that succeeded; and an attempt is made only after every
\* available strategy before it was attempted in this call.
C19_StrategiesInOrder ==
    site = "aiweekly" =>
        /\ \A i, j \in 1..Len(flog) : i < j => Rank(flog[i].by) < Rank(flog[j].by)
        /\ \A i \in 1..Len(flog) : i < Len(flog) => ~Succeeded(flog[i])
        /\ \A j \in 1..Len(flog) :
              \A s \in Available :
                  Rank(s) < Rank(flog[j].by) => \E i \in 1..(j - 1) : flog[i].by = s
        /\ (Len(flog) > 0 /\ Succeeded(flog[Len(flog)])) => fpc = "ret"

\* C19: the direct GET and cloudscraper failed, and Playwright then succeeded.
C19_Witness ==
    /\ site = "aiweekly" /\ fpc = "ret" /\ ~fres.raised
    /\ Len(flog) = 3 /\ flog[3].by = "playwright"

\* The direct response is a success: status 200 and no marker in its body.
DirectOk(o) == ~o.exc /\ o.status = 200 /\ ~RawHasMarker(o.body)

\* C20: AI_Weekly's fetch_html returns the response of its direct GET exactly
\* if that response has status 200 and a body without the marker in any letter
\* case; after any other direct response the call goes on to the next strategy.
C20_DirectGetReturnedOnlyIfOk ==
    (site = "aiweekly" /\ Len(flog) > 0) =>
        /\ flog[1].by = "requests"
        /\ (fpc = "ret" /\ Len(flog) = 1 /\ ~fres.raised) =>
              (DirectOk(flog[1].o) /\ fres.body = flog[1].o.body)
        /\ DirectOk(flog[1].o) => (fpc = "ret" /\ Len(flog) = 1 /\ ~fres.raised)
        /\ ~DirectOk(flog[1].o) =>
              \/ fpc \in {"cloudscraper", "playwright"}
              \/ Len(flog) > 1
              \/ fpc = "ret" /\ fres.raised /\ Available = {"requests"}
        /\ (~DirectOk(flog[1].o) /\ cloudscraper /\ Len(flog) > 1) => flog[2].by = "cloudscraper"

\* C20: a direct response with status 200 and the marker in capitals was not
\* returned, and cloudscraper was tried.
C20_Witness ==
    /\ site = "aiweekly" /\ Len(flog) = 2 /\ flog[2].by = "cloudscraper"
    /\ flog[1].o.status = 200 /\ ~flog[1].o.exc
    /\ \E i \in 1..Len(flog[1].o.body.elems) :
           flog[1].o.body.elems[i].text = "Verify You Are Human"

--------------------------------------------------------------------------
(* Claims about the runs of crawl(). *)

\* The points of crawl() inside the processing of one candidate item.
ItemSteps == {"attempt", "resolving", "article", "detail", "items"}

\* C2: in every crawler, no step taken while a candidate item is being
\* processed ends the run: a failing item is caught and skipped, and crawl()
\* goes on to the remaining candidates.
C2_ItemFailureNeverAborts ==
    [][(pc \in ItemSteps) => (pc' # "aborted")]_vars

\* C4: in every state of every crawler's run the output holds at most limit
\* records.
C4_AtMostLimitRecords ==
    Len(out) <= limit

\* C4: 机器之心 has written its limit-th record with articles of the page left
\* over.
C4_Witness ==
    /\ site = "jqzx" /\ pc = "items"
    /\ limit > 0 /\ Len(out) = limit /\ bidx <= Len(batch)

\* C10: when the body of a fetched detail page contains "verify you are human"
\* in any letter case, the step that handles the page writes no record and
\* leaves the saved count as it was.
C10_ChallengeBodyWritesNoRecord ==
    [][(site = "aiweekly" /\ pc = "article" /\ fpc = "ret" /\ ~fres.raised
        /\ RawHasMarker(fres.body)) => (out' = out /\ saved' = saved)]_vars

--------------------------------------------------------------------------
(* Claims about the paginated and the timeline crawls. *)

\* Every page request answered so far got a full page, and none of its
\* articles failed.
FullPagesSoFar ==
    \A i \in 1..Len(reqs) :
        (i < Len(reqs) \/ pc # "page") => (reqs[i].got = PerPage /\ reqs[i].failed = 0)

LastStatus == batch[bidx - 1]
LastRecord == out[Len(out)]
StatusHandled == site = "xzy" /\ pc = "items" /\ bidx > 1

C13_NoArticleWrittenTwice ==
    \A i, j \in 1..Len(out) : i # j => out[i].url # out[j].url

--------------------------------------------------------------------------
(* Claims about the output of the list-driven crawls. *)

ListDriven == site \in ({"aiweekly"} \cup StaticSites)

\* The item at urls[idx] has been fetched and extracted: the step to come
\* handles a success.
ItemSucceeded ==
    \/ site \in StaticSites /\ pc = "detail" /\ fpc = "ret" /\ ~fres.raised
    \/ /\ site = "aiweekly" /\ pc = "article" /\ fpc = "ret"
       /\ ~fres.raised /\ ~ExtractRaises(furl, fres.body)

RECURSIVE IsSubseq(_, _)
\* s can be had from t by leaving elements out.
IsSubseq(s, t) ==
    IF s = <<>> THEN TRUE
    ELSE IF t = <<>> THEN FALSE
    ELSE IF Head(s) = Head(t) THEN IsSubseq(Tail(s), Tail(t))
    ELSE IsSubseq(s, Tail(t))

\* C14: the step that handles a successfully extracted item appends its record
\* to the output and only then moves to the next item; the output only ever
\* grows at its end; and while an item is being fetched the output holds, in
\* processing order, records of items before it only, all of them where no item
\* can be skipped.
C14_StreamingWrite ==
    /\ [][ItemSucceeded =>
            /\ Len(out') = Len(out) + 1 /\ SubSeq(out', 1, Len(out)) = out
            /\ out'[Len(out')].url = urls[idx]
            /\ idx' = idx + 1 /\ pc' = "loop"]_vars
    /\ [][Len(out') >= Len(out) /\ SubSeq(out', 1, Len(out)) = out]_vars
    /\ [](ListDriven /\ pc \in {"loop", "attempt", "resolving", "article", "detail"} =>
            /\ Len(out) <= idx - 1
            /\ IsSubseq([i \in 1..Len(out) |-> out[i].url], SubSeq(urls, 1, idx - 1))
            /\ site = "aiweekly" => Len(out) = saved
            /\ site \in {"hfb", "hfp", "lzw"} => Len(out) = idx - 1)

\* C14: TechCrunch_AI is fetching its second article with the record of the
\* first in the output.
C14_Witness ==
    /\ site = "tec" /\ pc = "detail" /\ fpc = "get" /\ idx = 2
    /\ Len(out) = 1 /\ out[1].url = urls[1]

\* C15: no record with an empty content is ever written: a detail page on
\* which no usable content is found makes the extraction fail instead.
C15_NoRecordWithEmptyContent ==
    \A i \in 1..Len(out) : out[i].content # <<>>

\* C16: the count that the final summary line of a run reports as saved is the
\* number of records written to the output.
C16_SummaryCountsRecordsWritten ==
    pc = "done" => summary[1] = Len(out)

\* C18: the url of every record written is absolute and normalized: it has no
\* query string and no trailing slash.
C18_RecordUrlNormalized ==
    \A i \in 1..Len(out) :
        /\ StartsWithHttp(out[i].url)
        /\ \A k \in 1..Len(out[i].url) : out[i].url[k] \notin QueryToks
        /\ out[i].url[Len(out[i].url)] # "/"

--------------------------------------------------------------------------
(* Claims about the pauses and the cursors of the crawl loops. *)

\* C21: once the loop is done with a candidate item, saved or skipped, the
\* last thing it did for the item is the randomized pause: the list-driven
\* loops stand between two items, the loop of 机器之心 inside a page.
C21_PauseAfterEveryItem ==
    /\ (ListDriven /\ pc = "loop" /\ idx > 1) =>
          (itemlog # <<>> /\ itemlog[Len(itemlog)] = "rate")
    /\ (site = "jqzx" /\ pc = "items" /\ bidx > 1) => itemlog = <<"rate">>

\* C22: when an iteration of the paginated or timeline loop is over and the
\* loop goes on (saved is still below limit), the cursor of the request to
\* come differs from the cursor of the request just answered.
C22_CursorAdvancesOrLoopExits ==
    (site \in {"jqzx", "xzy"} /\ pc = "while" /\ Len(reqs) > 0 /\ saved < limit) =>
        cursor # reqs[Len(reqs)].cursor

\* C23: a page request of the paginated or timeline loop is issued only while
\* saved is below limit and only if the request before it was answered by a
\* page with items; the first request of the timeline crawler carries no
\* max_id and each later one the id of the last status of the page before.
C23_NoRequestAfterTheEnd ==
    [][(site \in {"jqzx", "xzy"} /\ Len(reqs') > Len(reqs)) =>
          /\ saved < limit
          /\ Len(reqs) > 0 => reqs[Len(reqs)].got > 0
          /\ site = "xzy" =>
                reqs'[Len(reqs')].cursor =
                    (IF Len(reqs) = 0 THEN "" ELSE batch[Len(batch)].id)]_vars

\* C23: the timeline crawler sent the id of the last of two statuses as
\* max_id, got an empty page and ended below its limit.
C23_Witness ==
    /\ site = "xzy" /\ pc = "done" /\ saved < limit
    /\ Len(reqs) = 2 /\ reqs[1].got = 2 /\ reqs[2].got = 0
    /\ reqs[2].cursor = batch[2].id /\ batch[1].id # batch[2].id

\* C24: in AI_Weekly the run aborts during discovery only after the archive
\* was asked and gave no issue link, that is, never on the home page alone;
\* and when the archive is fetched and holds an issue link, the run goes on to
\* fetch the first issue link of the archive.
C24_DiscoveryAbortsOnlyWithoutSource ==
    [][site = "aiweekly" =>
          /\ (pc \in {"home", "archive"} /\ pc' = "aborted") =>
                (pc = "archive" /\ (fres.raised \/ FindArchiveIssue(fres.body) = <<>>))
          /\ (pc = "archive" /\ pc' # pc /\ ~fres.raised /\ FindArchiveIssue(fres.body) # <<>>) =>
                (pc' = "issue" /\ furl' = FindArchiveIssue(fres.body))]_vars

\* status_forcelist of the Hugging Face crawlers' Retry configuration
RetryStatuses == {429, 502, 503, 504}

\* C25: one call of the Hugging Face fetch_html makes at most 3 attempts, and
\* an attempt is followed by another only if it failed by a connection error
\* or with one of the statuses 429, 502, 503, 504.
C25_RetriedOnlyOnRetryStatus ==
    site \in {"hfb", "hfp"} =>
        /\ Len(flog) <= 3
        /\ \A i \in 1..(Len(flog) - 1) :
              flog[i].o.exc \/ flog[i].o.status \in RetryStatuses

\* The hub article asked for by the last status handled was fetched.
HubFetched == flog # <<>> /\ ~fetch_hub_article(flog[1].o).raised

\* The url of the record follows the anchors first and the text second, and
\* with no link in either the record is of the status's own url and text.
LinkOrder(title) ==
    LET st == LastStatus
        r == LastRecord
    IN /\ (HubAnchor(st.anchors) # <<>> /\ HubFetched) => r.url = HubAnchor(st.anchors)
       /\ (HubAnchor(st.anchors) = <<>> /\ HubSearch(st.text) # <<>> /\ HubFetched) =>
             r.url = HubSearch(st.text)
       /\ (HubAnchor(st.anchors) = <<>> /\ HubSearch(st.text) = <<>>) =>
             /\ flog = <<>>
             /\ r.url = st.url
             /\ r.content = (IF st.text = <<>> THEN <<>> ELSE <<st.text>>)
             /\ r.title = title

\* C26, as claimed: parse_status takes the hub link from the anchors first and
\* from the rendered text only when no anchor matches; with no link in either
\* the record has the status's url, its text as content, and as title the
\* text cut to its first 40 characters.
C26_FallbackTitleIsTruncatedText ==
    StatusHandled => LinkOrder(Take(LastStatus.text, TitleLen))

\* C26, amended: as above, the title being the first 40 characters of the
\* text followed by an ellipsis when the text is longer than that.
C26_FallbackTitleIsTruncatedTextWithEllipsis ==
    StatusHandled =>
        LinkOrder(Take(LastStatus.text, TitleLen) \o
                      (IF Len(LastStatus.text) > TitleLen THEN <<"...">> ELSE <<>>))

\* C26: a status with one hub link in an anchor and another in its text was
\* handled and its hub article fetched.
C26_Witness ==
    /\ StatusHandled /\ HubFetched
    /\ HubAnchor(LastStatus.anchors) # <<>> /\ HubSearch(LastStatus.text) # <<>>
    /\ HubAnchor(LastStatus.anchors) # HubSearch(LastStatus.text)
    /\ LastRecord.url = HubAnchor(LastStatus.anchors)

\* C29: every step of the timeline loop that processes a status appends
\* exactly one record, counts it and does not abort; when the request for the
\* hub article of the status failed, the record is the fallback record of the
\* status's own url and text.
C29_OneRecordPerStatus ==
    [][(site = "xzy" /\ pc = "items" /\ bidx' = bidx + 1) =>
          /\ Len(out') = Len(out) + 1 /\ saved' = saved + 1 /\ pc' = "items"
          /\ SubSeq(out', 1, Len(out)) = out
          /\ (flog' # <<>> /\ fetch_hub_article(flog'[1].o).raised) =>
                out'[Len(out')] = FallbackRecord(batch[bidx])]_vars

\* C29: a status with a hub link was handled, the request for the hub
\* article failed, and the record written is of the status's own url.
C29_Witness ==
    /\ StatusHandled /\ HubLink(LastStatus) # <<>>
    /\ flog # <<>> /\ fetch_hub_article(flog[1].o).raised
    /\ LastRecord.url = LastStatus.url /\ Len(out) = saved

--------------------------------------------------------------------------
(* Claims about resolve_redirect, parse_issue and the records of AI_Weekly. *)

\* C27: resolve_redirect sends the HEAD request first and at most one GET
\* after it; the GET is sent exactly if the HEAD was answered with the input
\* URL as its final URL; the result is the final URL of the GET if the GET was
\* sent and answered, and the final URL of the HEAD if the HEAD was answered
\* and no GET sent.
C27_GetIffHeadUnredirected ==
    /\ Len(rlog) <= 2
    /\ Len(rlog) >= 1 => rlog[1].by = "head"
    /\ Len(rlog) = 2 => rlog[2].by = "get"
    /\ rpc = "get" => (Len(rlog) = 1 /\ ~rlog[1].o.exc /\ rlog[1].o.url = rurl)
    /\ rpc = "ret" =>
          /\ Len(rlog) >= 1
          /\ (Len(rlog) = 2) <=> (~rlog[1].o.exc /\ rlog[1].o.url = rurl)
          /\ (Len(rlog) = 2 /\ ~rlog[2].o.exc) => rres.url = rlog[2].o.url
          /\ (Len(rlog) = 1 /\ ~rlog[1].o.exc) => rres.url = rlog[1].o.url

\* C27: the HEAD came back with the input URL, the GET went elsewhere, and
\* the result is where the GET went.
C27_Witness ==
    /\ rpc = "ret" /\ Len(rlog) = 2 /\ ~rlog[2].o.exc
    /\ rlog[1].o.url = rurl /\ rlog[2].o.url # rurl /\ rres.url = rlog[2].o.url

\* C30: in AI_Weekly every attempt on a cur.at candidate begins with
\* resolve_redirect of the candidate and every other attempt with the fetch
\* of the candidate; after the resolution the page fetched is the resolved
\* URL; and the record written has the candidate URL as its url, whatever
\* URL was fetched.
C30_RecordKeepsCandidateUrl ==
    [][site = "aiweekly" =>
          /\ (pc = "attempt" /\ pc' # pc) =>
                IF IsCurAt(urls[idx])
                THEN pc' = "resolving" /\ rpc' = "head" /\ rurl' = urls[idx]
                ELSE pc' = "article" /\ furl' = urls[idx]
          /\ (pc = "resolving" /\ pc' = "article") => furl' = rres.url
          /\ (pc = "article" /\ out' # out) =>
                /\ Len(out') = Len(out) + 1
                /\ out'[Len(out')].url = urls[idx]
                /\ out'[Len(out')].content = ExtractContent(furl, fres.body)]_vars

\* C30: on its second attempt a cur.at candidate was resolved to a page of
\* another host, whose image the content names, and its record has the short
\* link as url.
C30_Witness ==
    /\ site = "aiweekly" /\ pc = "loop" /\ Len(out) > 0
    /\ IsCurAt(LastRecord.url)
    /\ \E k \in 1..Len(LastRecord.content) : LastRecord.content[k][1] = "https://ex.com"
    /\ Count(itemlog, "try") = 2

--------------------------------------------------------------------------
(* resolve_redirect applied twice, on a network whose redirects are fixed: *)
(* headNext[u] and getNext[u] are where one HEAD, one GET of u redirects   *)
(* (u itself: no redirect; NetErr: the request fails).                     *)

Urls == { <<"https://cur.at", "/s">>, <<"https://ex.com", "/a">>, <<"https://ex.com", "/b">> }
NetErr == <<"error">>

\* A request that follows only the first redirect.
Follow_OneHop(next, u, n) ==
    IF next[u] = NetErr THEN ExcR ELSE Final(next[u])

RECURSIVE Follow(_, _, _)
\* requests.head / requests.get with allow_redirects=True: the final URL, an
\* exception when a hop fails or the redirects do not end within n hops.
Follow(next, u, n) ==
    IF next[u] = NetErr THEN ExcR
    ELSE IF next[u] = u THEN Final(u)
    ELSE IF n = 0 THEN ExcR
    ELSE Follow(next, next[u], n - 1)

InitResolve ==
    /\ site = "aiweekly"
    /\ cloudscraper = FALSE /\ sync_playwright = FALSE /\ limit = 0
    /\ pc = "resolve_twice"
    /\ fpc = "idle" /\ furl = <<>> /\ flog = <<>> /\ fres = Raised
    /\ rpc = "idle" /\ rurl = <<>> /\ rlog = <<>> /\ rres = NoResult
    /\ headNext \in [Urls -> Urls \cup {NetErr}]
    /\ getNext \in [Urls -> Urls \cup {NetErr}]
    /\ round = 0 /\ first = [input |-> <<>>, result |-> <<>>]
    /\ issue_date = "" /\ urls = <<>> /\ idx = 1 /\ attempt = 0
    /\ saved = 0 /\ out = <<>> /\ itemlog = <<>> /\ summary = <<>>
    /\ cursor = <<>> /\ batch = <<>> /\ bidx = 1 /\ reqs = <<>>

\* resolve_redirect(u)
TwiceStart ==
    /\ round = 0
    /\ \E u \in Urls : BeginResolve(u)
    /\ round' = 1
    /\ UNCHANGED <<envVars, fetchVars, headNext, getNext, first, crawlVars, pageVars>>

\* resolve_redirect(resolve_redirect(u))
TwiceAgain ==
    /\ round = 1 /\ rpc = "ret" /\ ~rres.raised
    /\ first' = [input |-> rurl, result |-> rres.url]
    /\ BeginResolve(rres.url)
    /\ round' = 2
    /\ UNCHANGED <<envVars, fetchVars, headNext, getNext, crawlVars, pageVars>>

TwiceDone ==
    /\ round = 2 /\ rpc = "ret"
    /\ round' = 3
    /\ UNCHANGED <<envVars, fetchVars, resolveVars, headNext, getNext, first, crawlVars, pageVars>>

NextResolve ==
    \/ TwiceStart
    \/ ResolveHead(Follow(headNext, rurl, Cardinality(Urls)))
    \/ ResolveGet(Follow(getNext, rurl, Cardinality(Urls)))
    \/ TwiceAgain
    \/ TwiceDone

SpecResolve == InitResolve /\ [][NextResolve]_vars

\* No request redirects u.
IsFinal(u) == headNext[u] = u /\ getNext[u] = u

\* C9, as claimed: a URL that no request redirects resolves to itself, and for
\* any redirects the second resolution returns what the first returned.
C9_IdempotentForAnyRedirects ==
    /\ (rpc = "ret" /\ IsFinal(rurl)) => rres.url = rurl
    /\ round = 3 => rres.url = first.result

\* C9, amended: a URL that no request redirects resolves to itself, and the
\* second resolution returns what the first returned whenever GET requests are
\* redirected as HEAD requests are.
C9_IdempotentWhenHeadAndGetAgree ==
    /\ (rpc = "ret" /\ IsFinal(rurl)) => rres.url = rurl
    /\ (round = 3 /\ headNext = getNext) => rres.url = first.result

\* C9: a short link was expanded, expanded again, and stayed what it was.
C9_Witness ==
    /\ round = 3 /\ headNext = getNext
    /\ first.result # first.input /\ rres.url = first.result

--------------------------------------------------------------------------
(* The list discoverers applied to one listing page: parse_issue of        *)
(* AI_Weekly and parse_list of the static-list crawlers. fres holds the    *)
(* page, urls what the discoverer returns.                                 *)

\* The most anchors on a listing page of the model.
MaxAnchors == 2

\* The anchors a listing page of each site is made of.
ListAnchors(s) ==
    CASE s = "aiweekly" ->
             { A(<<"https://ex.com", "/a">>, "cat"), A(<<"https://ex.com", "/a", "?q">>, "cat"),
               A(<<"https://ex.com", "/a", "#f">>, "cat"), A(<<"https://ex.com", "/a", "/">>, "cat"),
               A(<<"https://ex.com", "/b">>, "cat"), A(<<"https://ex.com", "/b">>, "ad"),
               A(<<"/about">>, "cat"), A(<<"https://aiweekly.co", "/issues/1">>, "cat") }
      [] s = "hfb" ->
             { A(<<"/blog", "/x">>, "card"), A(<<"/blog", "/x", "?q">>, "card"),
               A(<<"/blog", "/x", "/">>, "card"), A(<<"/blog", "/">>, "card"),
               A(<<"/blog", "/y">>, "none"), A(<<"/about">>, "none") }
      [] s = "hfp" ->
             { A(<<"/papers", "/1">>, "card"), A(<<"/papers", "/1", "#f">>, "card"),
               A(<<"/papers", "/2">>, "none"), A(<<"/about">>, "card") }
      [] s = "tec" ->
             { A(<<"https://techcrunch.com", "/x">>, "post-block"),
               A(<<"https://techcrunch.com", "/x", "?q">>, "loop-card"),
               A(<<"https://techcrunch.com", "/y">>, "h2"),
               A(<<"https://techcrunch.com", "/z">>, "ga"),
               A(<<"https://techcrunch.com", "/z">>, "none") }
      [] s = "lzw" ->
             { A(<<"/x">>, "entry-title"), A(<<"/x">>, "article"),
               A(<<"https://www.qbitai.com", "/y">>, "entry-title-in-article"),
               A(<<"/z">>, "picture_text"), A(<<"/z">>, "none") }
      [] OTHER ->
             { A(<<"/x">>, "entry-title"), A(<<"https://syncedreview.com", "/x">>, "entry-title"),
               A(<<"https://syncedreview.com", "/y", "?q">>, "entry-title"),
               A(<<"/z">>, "none") }

ListSites == {"aiweekly"} \cup StaticSites

InitList ==
    /\ site \in ListSites
    /\ cloudscraper = FALSE /\ sync_playwright = FALSE /\ limit = 0
    /\ pc = "parse"
    /\ fpc = "ret" /\ furl = <<>> /\ flog = <<>>
    /\ fres \in {Returned(Page("List", "", <<>>, as)) : as \in SeqsUpTo(ListAnchors(site), MaxAnchors)}
    /\ rpc = "idle" /\ rurl = <<>> /\ rlog = <<>> /\ rres = NoResult
    /\ headNext = <<>> /\ getNext = <<>> /\ round = 0 /\ first = <<>>
    /\ issue_date = "" /\ urls = <<>> /\ idx = 1 /\ attempt = 0
    /\ saved = 0 /\ out = <<>> /\ itemlog = <<>> /\ summary = <<>>
    /\ cursor = <<>> /\ batch = <<>> /\ bidx = 1 /\ reqs = <<>>

\* parse_issue(html)[1], parse_list(html)
ParseList ==
    /\ pc = "parse"
    /\ urls' = parse_list(site, fres.body)
    /\ pc' = "parsed"
    /\ UNCHANGED <<envVars, fetchVars, resolveVars, netVars, issue_date, idx, attempt,
                   saved, out, itemlog, summary, pageVars>>

NextList == ParseList

SpecList == InitList /\ [][NextList]_vars

\* The normalized form of a URL: query string, fragment and trailing slash
\* stripped.
Norm(u) == RStripSlash(SplitFirst(u, QueryToks \cup FragToks))

\* The absolute URL an href of a page of site s stands for.
Absolute(s, h) == IF StartsWithSlash(h) THEN SiteBase(s) \o h ELSE h

\* Anchor k of the page is an occurrence of the candidate u.
Occurs(k, u) == Norm(Absolute(site, fres.body.anchors[k].href)) = Norm(u)

\* The position of the first occurrence of u in the page, 0 if there is none.
FirstOcc(u) ==
    LET n == Len(fres.body.anchors) IN
    IF \E k \in 1..n : Occurs(k, u)
    THEN CHOOSE k \in 1..n : Occurs(k, u) /\ \A m \in 1..(k - 1) : ~Occurs(m, u)
    ELSE 0

\* C5: the candidates a list discoverer returns hold no two entries whose
\* normalized forms are equal.
C5_NoTwoCandidatesNormalizedEqual ==
    pc = "parsed" =>
        \A i, j \in 1..Len(urls) : i # j => Norm(urls[i]) # Norm(urls[j])

\* C6: the candidates a list discoverer returns are in the order of their first
\* occurrences in the page.
C6_CandidatesInDocumentOrder ==
    pc = "parsed" =>
        \A i, j \in 1..Len(urls) : i < j => FirstOcc(urls[i]) <= FirstOcc(urls[j])

\* The selector tiers of a static-list discoverer and the anchors each selects.
TieredSites == {"tec", "hfb", "hfp", "lzw"}
Tiers(s) == IF s = "tec" THEN TecSelectors ELSE IF s = "lzw" THEN 1..3 ELSE 1..2
TierSelects(s, t, a) ==
    CASE s = "tec" -> TecMatches(t, a)
      [] s = "lzw" -> LzwMatches(t, a)
      [] OTHER -> IF t = 1 THEN a.ctx = "card" ELSE StartsWithSection(s, a.href)

\* Tier t has a match on the page.
TierYields(t) ==
    \E k \in 1..Len(fres.body.anchors) : TierSelects(site, t, fres.body.anchors[k])

\* C7: in static-page discovery, when a tier has a match every candidate
\* returned is a link that this tier or a tier before it selects: no link found
\* only by a lower-priority tier is returned.
C7_NoLinkOfALowerTier ==
    (pc = "parsed" /\ site \in TieredSites) =>
        \A t \in Tiers(site) :
            TierYields(t) =>
                \A i \in 1..Len(urls) :
                    \E k \in 1..Len(fres.body.anchors) :
                        /\ Occurs(k, urls[i])
                        /\ \E t2 \in 1..t : TierSelects(site, t2, fres.body.anchors[k])

--------------------------------------------------------------------------
(* Body normalization applied to one content root: the loops of AI_Weekly's *)
(* extract_article and of Huggingface_Blog's fetch_detail. fres holds the   *)
(* page, furl its URL, out the record made of it.                           *)

\* The most elements in a content root of the model.
MaxElems == 3

\* The descendants a content root is made of.
BodyElems ==
    { P("a"), P("b"), P(""), Div("x"), Img("c.png"), Img("http://img/a.png"), Img("icon.svg") }

BodySites == {"aiweekly", "hfb"}

InitBody ==
    /\ site \in BodySites
    /\ cloudscraper = FALSE /\ sync_playwright = FALSE /\ limit = 1
    /\ pc = "extract"
    /\ fpc = "ret" /\ furl = <<"https://ex.com", "/a", "/">> /\ flog = <<>>
    /\ fres \in {Returned(Page("T", "", es, <<>>)) : es \in SeqsUpTo(BodyElems, MaxElems)}
    /\ rpc = "idle" /\ rurl = <<>> /\ rlog = <<>> /\ rres = NoResult
    /\ headNext = <<>> /\ getNext = <<>> /\ round = 0 /\ first = <<>>
    /\ issue_date = "" /\ urls = <<>> /\ idx = 1 /\ attempt = 0
    /\ saved = 0 /\ out = <<>> /\ itemlog = <<>> /\ summary = <<>>
    /\ cursor = <<>> /\ batch = <<>> /\ bidx = 1 /\ reqs = <<>>

\* extract_article(url) and fetch_detail(url) after fetch_html
ExtractBody ==
    /\ pc = "extract"
    /\ pc' = IF site = "aiweekly" /\ ExtractRaises(furl, fres.body) THEN "raised" ELSE "extracted"
    /\ out' = IF site = "aiweekly"
              THEN IF ExtractRaises(furl, fres.body) THEN <<>>
                   ELSE <<Record(furl, fres.body.title, "", ExtractContent(furl, fres.body))>>
              ELSE <<StDetailRecord(site, furl, fres.body)>>
    /\ UNCHANGED <<envVars, fetchVars, resolveVars, netVars, issue_date, urls, idx, attempt,
                   saved, itemlog, summary, pageVars>>

NextBody == ExtractBody

SpecBody == InitBody /\ [][NextBody]_vars

\* What tells a segment or an element from another: the text of a paragraph,
\* the source of an image.
SegKey(seg) == seg[Len(seg)]
ImgSrcsOf(elems) == {elems[i].text : i \in {k \in 1..Len(elems) : elems[k].tag = "img"}}
EndsInSvg(src) == src \in SvgSrcs

\* C17: the segments of an extracted body are in document order, hold every
\* non-empty paragraph and no empty one, hold no image URL twice and no image
\* whose source ends in .svg.
C17_BodyInDocumentOrder ==
    pc = "extracted" =>
        LET elems == fres.body.elems
            segs == out[1].content
            keys == [i \in 1..Len(segs) |-> SegKey(segs[i])]
            paras == {i \in 1..Len(elems) : elems[i].tag = "p" /\ elems[i].text # ""}
        IN /\ IsSubseq(keys, [i \in 1..Len(elems) |-> elems[i].text])
           /\ \A i \in 1..Len(segs) : keys[i] # ""
           /\ Cardinality({i \in 1..Len(segs) : keys[i] \notin ImgSrcsOf(elems)}) = Cardinality(paras)
           /\ \A i, j \in 1..Len(segs) :
                  (i # j /\ keys[i] \in ImgSrcsOf(elems)) => segs[i] # segs[j]
           /\ \A i \in 1..Len(segs) : ~EndsInSvg(keys[i])

==========================================================================
